---- MODULE Spec2Model ----
(***************************************************************************)
(* Near-Earth objects and their close approaches: the in-memory database   *)
(* (database.py), the entity constructors (models.py), the loader loops    *)
(* (extract.py), the filter predicates, the filter factory and the limiter *)
(* (filters.py).                                                           *)
(*                                                                         *)
(* Objects are identified by their position in the collection handed to    *)
(* the database: NEO j is neos[j], approach i is approaches[i].  Python's  *)
(* None is the empty tuple and a present value v is <<v>>, so that None, 0 *)
(* and False stay three different things.  Floats are naturals plus NaN.   *)
(***************************************************************************)
EXTENDS Integers, Sequences, FiniteSets

VARIABLES
    neos,               \* list of NearEarthObject, in the order supplied
    approaches,         \* list of CloseApproach, in the order supplied
    designation_index,  \* NEODatabase._designation_index: designation -> NEO
    name_index,         \* NEODatabase._name_index: name -> NEO
    found,              \* what the last get_neo_by_* call returned
    params,             \* the arguments create_filters was called with
    filters,            \* the filter collection handed to query
    lim,                \* the n handed to limit
    rng,                \* how many values zip has taken from range(n)
    ai,                 \* the approach the query generator stands at (0: not started)
    pulled,             \* how many items the query generator has yielded
    out,                \* the approaches the consumer has received, in order
    evals,              \* every filter call made so far, in order
    pc                  \* where the program is

dbvars == <<neos, approaches, designation_index, name_index, found>>
qvars == <<params, filters, lim, rng, ai, pulled, out, evals>>
vars == <<dbvars, qvars, pc>>

----------------------------------------------------------------------------
\* Python values

None == <<>>
Some(v) == <<v>>

\* float('nan'): the value of a missing diameter
NaN == -1

\* truth value of an optional string: None and '' are falsy
TruthyStr(o) == o # None /\ o[1] # ""

\* truth value of an optional number: None and 0 are falsy
TruthyNum(o) == o # None /\ o[1] # 0

----------------------------------------------------------------------------
\* Bounds and input domains

MaxNeos == 2
MaxApproaches == 3

Designations == {"433", "1036"}
ApproachDesignations == {"433", "1036", "9999"}
RawNames == {None, Some(""), Some("Eros"), Some("Ida")}

----------------------------------------------------------------------------
\* models.py

\* NearEarthObject.__init__: an empty name becomes None, a falsy diameter NaN
NearEarthObject(designation, name, diameter, hazardous) ==
    [designation |-> designation,
     name        |-> IF TruthyStr(name) THEN name ELSE None,
     diameter    |-> IF TruthyNum(diameter) THEN diameter[1] ELSE NaN,
     hazardous   |-> hazardous,
     approaches  |-> <<>>]

\* helpers.cd_to_datetime: a calendar string, given by its day and its hour,
\* becomes a timestamp
cd_to_datetime(cd) == [date |-> cd[1], hour |-> cd[2]]

\* CloseApproach.__init__: a missing time stays None, the NEO reference
\* starts unset
CloseApproach(designation, time, distance, velocity) ==
    [designation |-> designation,
     time        |-> IF time # None THEN Some(cd_to_datetime(time[1])) ELSE None,
     distance    |-> distance,
     velocity    |-> velocity,
     neo         |-> None]

----------------------------------------------------------------------------
\* database.py: NEODatabase.__init__

\* {neo.designation: neo for neo in neos}: a later NEO overwrites an earlier
\* one with the same key.  DesignationIndexUpTo(ns, j) is the dict after the
\* first j NEOs.
RECURSIVE DesignationIndexUpTo(_, _)
DesignationIndexUpTo(ns, j) ==
    IF j = 0 THEN <<>>
    ELSE LET d == DesignationIndexUpTo(ns, j - 1)
             k == ns[j].designation
         IN  [x \in DOMAIN d \cup {k} |-> IF x = k THEN j ELSE d[x]]

\* The same dict when an earlier NEO keeps its key (first write wins).
RECURSIVE DesignationIndexFirstUpTo(_, _)
DesignationIndexFirstUpTo(ns, j) ==
    IF j = 0 THEN <<>>
    ELSE LET d == DesignationIndexFirstUpTo(ns, j - 1)
             k == ns[j].designation
         IN  [x \in DOMAIN d \cup {k} |-> IF x \in DOMAIN d THEN d[x] ELSE j]

BuildDesignationIndexFirst(ns) == DesignationIndexFirstUpTo(ns, Len(ns))

BuildDesignationIndex(ns) == DesignationIndexUpTo(ns, Len(ns))

\* {neo.name: neo for neo in neos if neo.name}
\* (keys are the names as stored: Some("Eros"); None is never a key)
RECURSIVE NameIndexUpTo(_, _)
NameIndexUpTo(ns, j) ==
    IF j = 0 THEN <<>>
    ELSE LET d == NameIndexUpTo(ns, j - 1)
             k == ns[j].name
         IN  IF TruthyStr(k)
             THEN [x \in DOMAIN d \cup {k} |-> IF x = k THEN j ELSE d[x]]
             ELSE d

\* The comprehension without its "if neo.name" condition.
RECURSIVE NameIndexUnfilteredUpTo(_, _)
NameIndexUnfilteredUpTo(ns, j) ==
    IF j = 0 THEN <<>>
    ELSE LET d == NameIndexUnfilteredUpTo(ns, j - 1)
             k == ns[j].name
         IN  [x \in DOMAIN d \cup {k} |-> IF x = k THEN j ELSE d[x]]

BuildNameIndexUnfiltered(ns) == NameIndexUnfilteredUpTo(ns, Len(ns))

BuildNameIndex(ns) == NameIndexUpTo(ns, Len(ns))

\* dict.get(key): the value, or None
DictGet(d, k) == IF k \in DOMAIN d THEN Some(d[k]) ELSE None

\* The loop body with the approach put at the front of the list.
LinkOnePrepend(db, idx, i) ==
    LET neo == DictGet(idx, db.approaches[i].designation)
    IN  IF neo # None
        THEN [neos |-> [db.neos EXCEPT ![neo[1]].approaches = <<i>> \o @],
              approaches |-> [db.approaches EXCEPT ![i].neo = neo]]
        ELSE db

\* One turn of the linking loop: approach i looks its designation up and, when
\* a NEO is found, takes it as its neo and is appended to its approaches.
LinkOne(db, idx, i) ==
    LET neo == DictGet(idx, db.approaches[i].designation)
    IN  IF neo # None
        THEN [neos |-> [db.neos EXCEPT ![neo[1]].approaches = Append(@, i)],
              approaches |-> [db.approaches EXCEPT ![i].neo = neo]]
        ELSE db

\* for approach in approaches: ...   (the state after the first i approaches)
RECURSIVE LinkUpTo(_, _, _)
LinkUpTo(db, idx, i) ==
    IF i = 0 THEN db ELSE LinkOne(LinkUpTo(db, idx, i - 1), idx, i)

\* get_neo_by_designation / get_neo_by_name
get_neo_by_designation(designation) == DictGet(designation_index, designation)
get_neo_by_name(name) == DictGet(name_index, name)

----------------------------------------------------------------------------
\* Actions: loading (extract.py), construction and look-up (database.py)

\* load_neos: one row becomes one NearEarthObject appended to the list
LoadNeo(designation, name, diameter, hazardous) ==
    /\ pc = "load"
    /\ neos' = Append(neos, NearEarthObject(designation, name, diameter, hazardous))
    /\ UNCHANGED <<approaches, designation_index, name_index, found, qvars, pc>>

\* load_approaches: one record becomes one CloseApproach appended to the list
LoadApproach(designation, time, distance, velocity) ==
    /\ pc = "load"
    /\ approaches' = Append(approaches, CloseApproach(designation, time, distance, velocity))
    /\ UNCHANGED <<neos, designation_index, name_index, found, qvars, pc>>

\* NEODatabase(neos, approaches)
NewDatabase ==
    /\ pc = "load"
    /\ LET idx == BuildDesignationIndex(neos)
           db  == LinkUpTo([neos |-> neos, approaches |-> approaches],
                           idx, Len(approaches))
       IN  /\ designation_index' = idx
           /\ name_index' = BuildNameIndex(neos)
           /\ neos' = db.neos
           /\ approaches' = db.approaches
    /\ pc' = "ready"
    /\ UNCHANGED <<found, qvars>>

GetNeoByDesignation(k) ==
    /\ pc = "ready"
    /\ found' = [by |-> "designation", key |-> Some(k), neo |-> get_neo_by_designation(k)]
    /\ UNCHANGED <<neos, approaches, designation_index, name_index, qvars, pc>>

GetNeoByName(k) ==
    /\ pc = "ready"
    /\ found' = [by |-> "name", key |-> k, neo |-> get_neo_by_name(k)]
    /\ UNCHANGED <<neos, approaches, designation_index, name_index, qvars, pc>>

NoCall == [by |-> "none", key |-> None, neo |-> None]

NoQuery ==
    /\ params = [name \in {"date", "start_date", "end_date", "distance_min",
                           "distance_max", "velocity_min", "velocity_max",
                           "diameter_min", "diameter_max", "hazardous"} |-> None]
    /\ filters = <<>>
    /\ lim = None
    /\ rng = 0
    /\ ai = 0
    /\ pulled = 0
    /\ out = <<>>
    /\ evals = <<>>

InitDB ==
    /\ neos = <<>>
    /\ approaches = <<>>
    /\ designation_index = <<>>
    /\ name_index = <<>>
    /\ found = NoCall
    /\ NoQuery
    /\ pc = "load"

NextDB ==
    \/ /\ Len(neos) < MaxNeos
       /\ \E d \in Designations, nm \in RawNames : LoadNeo(d, nm, None, FALSE)
    \/ /\ Len(approaches) < MaxApproaches
       /\ \E d \in ApproachDesignations : LoadApproach(d, None, 0, 0)
    \/ NewDatabase
    \/ \E k \in ApproachDesignations \cup {""} : GetNeoByDesignation(k)
    \/ \E k \in RawNames : GetNeoByName(k)

SpecDB == InitDB /\ [][NextDB]_vars

----------------------------------------------------------------------------
\* filters.py: the predicates

\* what an attribute fetch gives: a value, or an AttributeError
Value(v) == [ok |-> TRUE, v |-> v]
Raised == [ok |-> FALSE, v |-> 0]

\* DateFilter.get, DistanceFilter.get, VelocityFilter.get
DateGet(a) == IF a.time = None THEN Raised ELSE Value(a.time[1].date)
DistanceGet(a) == Value(a.distance)
VelocityGet(a) == Value(a.velocity)

\* The NEO attribute fetches with an unset neo read as "no value".
DiameterGetLenient(ns, a) ==
    IF a.neo = None THEN Value(NaN) ELSE Value(ns[a.neo[1]].diameter)

\* DiameterFilter.get, HazardousFilter.get: approach.neo.<attribute>, which
\* raises AttributeError when approach.neo is None
DiameterGet(ns, a) ==
    IF a.neo = None THEN Raised ELSE Value(ns[a.neo[1]].diameter)
HazardousGet(ns, a) ==
    IF a.neo = None THEN Raised ELSE Value(ns[a.neo[1]].hazardous)

\* operator.eq / operator.ge / operator.le on floats: NaN compares false
Compare(op, x, v) ==
    IF x = NaN \/ v = NaN THEN FALSE
    ELSE CASE op = "eq" -> x = v
           [] op = "ge" -> x >= v
           [] op = "le" -> x <= v

\* the same operators on bools (False < True)
CompareBool(op, x, v) ==
    CASE op = "eq" -> x = v
      [] op = "ge" -> x \/ ~v
      [] op = "le" -> ~x \/ v

\* AttributeFilter.__init__
AttributeFilter(kind, op, value) == [kind |-> kind, op |-> op, value |-> value]

\* AttributeFilter.__call__: self.op(self.get(approach), self.value)
Call(f, ns, a) ==
    LET g == CASE f.kind = "Date" -> DateGet(a)
               [] f.kind = "Distance" -> DistanceGet(a)
               [] f.kind = "Velocity" -> VelocityGet(a)
               [] f.kind = "Diameter" -> DiameterGet(ns, a)
               [] f.kind = "Hazardous" -> HazardousGet(ns, a)
    IN  IF ~g.ok THEN "AttributeError"
        ELSE IF f.kind = "Hazardous"
             THEN (IF CompareBool(f.op, g.v, f.value) THEN "True" ELSE "False")
             ELSE (IF Compare(f.op, g.v, f.value) THEN "True" ELSE "False")

----------------------------------------------------------------------------
\* database.py: NEODatabase.query, a generator

Evaluation(i, k, r) == [approach |-> i, filter |-> k, result |-> r]

\* all([f(approach) for f in filters]): every filter is called, then the
\* results are combined.
RECURSIVE AllEager(_, _, _, _, _)
AllEager(fs, ns, as, i, k) ==
    IF k > Len(fs) THEN [r |-> "True", log |-> <<>>]
    ELSE LET r == Call(fs[k], ns, as[i])
             rest == AllEager(fs, ns, as, i, k + 1)
         IN  [r |-> IF r = "True" THEN rest.r ELSE r,
              log |-> <<Evaluation(i, k, r)>> \o rest.log]

\* any(f(approach) for f in filters): the first True ends the evaluation.
RECURSIVE AllAny(_, _, _, _, _)
AllAny(fs, ns, as, i, k) ==
    IF k > Len(fs) THEN [r |-> "False", log |-> <<>>]
    ELSE LET r == Call(fs[k], ns, as[i])
         IN  IF r = "False"
             THEN LET rest == AllAny(fs, ns, as, i, k + 1)
                  IN  [r |-> rest.r, log |-> <<Evaluation(i, k, r)>> \o rest.log]
             ELSE [r |-> r, log |-> <<Evaluation(i, k, r)>>]

\* all(f(approach) for f in filters), from filter k on: the filters are called
\* in order; the first False ends the evaluation, an exception leaves it.
RECURSIVE All(_, _, _, _, _)
All(fs, ns, as, i, k) ==
    IF k > Len(fs) THEN [r |-> "True", log |-> <<>>]
    ELSE LET r == Call(fs[k], ns, as[i])
         IN  IF r = "True"
             THEN LET rest == All(fs, ns, as, i, k + 1)
                  IN  [r |-> rest.r, log |-> <<Evaluation(i, k, r)>> \o rest.log]
             ELSE [r |-> r, log |-> <<Evaluation(i, k, r)>>]

\* The generator ending at the first approach that does not pass.
RECURSIVE ResumeStopsAtMismatch(_, _, _, _)
ResumeStopsAtMismatch(fs, ns, as, i) ==
    IF i >= Len(as) THEN [kind |-> "stop", at |-> i, log |-> <<>>]
    ELSE LET e == All(fs, ns, as, i + 1, 1)
         IN  IF e.r = "True" THEN [kind |-> "yield", at |-> i + 1, log |-> e.log]
             ELSE IF e.r = "False"
                  THEN [kind |-> "stop", at |-> i + 1, log |-> e.log]
                  ELSE [kind |-> "raise", at |-> i + 1, log |-> e.log]

\* One next() on the generator that stands after approach i: it examines the
\* following approaches until one passes (yield), the list ends (stop) or a
\* filter raises (raise).  at is the approach it then stands at.
RECURSIVE Resume(_, _, _, _)
Resume(fs, ns, as, i) ==
    IF i >= Len(as) THEN [kind |-> "stop", at |-> i, log |-> <<>>]
    ELSE LET e == All(fs, ns, as, i + 1, 1)
         IN  IF e.r = "True" THEN [kind |-> "yield", at |-> i + 1, log |-> e.log]
             ELSE IF e.r = "False"
                  THEN LET rest == Resume(fs, ns, as, i + 1)
                       IN  [rest EXCEPT !.log = e.log \o @]
                  ELSE [kind |-> "raise", at |-> i + 1, log |-> e.log]

----------------------------------------------------------------------------
\* filters.py: limit

\* One next() on zip(iterator, range(n)): the iterator is advanced first.
ZipNextIteratorFirst(n, r, fs, ns, as, i) ==
    LET u == Resume(fs, ns, as, i)
    IN  IF u.kind = "yield" /\ r = n
        THEN [kind |-> "stop", at |-> u.at, log |-> u.log, rng |-> r, pulled |-> 1]
        ELSE [kind |-> u.kind, at |-> u.at, log |-> u.log,
              rng |-> IF u.kind = "yield" THEN r + 1 ELSE r,
              pulled |-> IF u.kind = "yield" THEN 1 ELSE 0]

\* One next() on zip(range(n), iterator): range is advanced first, and when it
\* is exhausted the iterator is not touched.
ZipNext(n, r, fs, ns, as, i) ==
    IF r = n
    THEN [kind |-> "stop", at |-> i, log |-> <<>>, rng |-> r, pulled |-> 0]
    ELSE LET u == Resume(fs, ns, as, i)
         IN  [kind |-> u.kind, at |-> u.at, log |-> u.log, rng |-> r + 1,
              pulled |-> IF u.kind = "yield" THEN 1 ELSE 0]

\* limit with "if n is not None" for "if n".
LimitedNoneOnly(n) == n # None

\* limit: "if n:" decides between the zip generator and the iterator itself
Limited(n) == TruthyNum(n)

\* One next() on what limit(db.query(filters), n) returned
LimitNext(n, r, fs, ns, as, i) ==
    IF Limited(n)
    THEN ZipNext(n[1], r, fs, ns, as, i)
    ELSE LET u == Resume(fs, ns, as, i)
         IN  [kind |-> u.kind, at |-> u.at, log |-> u.log, rng |-> r,
              pulled |-> IF u.kind = "yield" THEN 1 ELSE 0]

----------------------------------------------------------------------------
\* filters.py: create_filters

ParamNames ==
    <<"date", "start_date", "end_date", "distance_min", "distance_max",
      "velocity_min", "velocity_max", "diameter_min", "diameter_max",
      "hazardous">>

\* the filter a parameter stands for
FilterOf(name, v) ==
    CASE name = "date" -> AttributeFilter("Date", "eq", v)
      [] name = "start_date" -> AttributeFilter("Date", "ge", v)
      [] name = "end_date" -> AttributeFilter("Date", "le", v)
      [] name = "distance_min" -> AttributeFilter("Distance", "ge", v)
      [] name = "distance_max" -> AttributeFilter("Distance", "le", v)
      [] name = "velocity_min" -> AttributeFilter("Velocity", "ge", v)
      [] name = "velocity_max" -> AttributeFilter("Velocity", "le", v)
      [] name = "diameter_min" -> AttributeFilter("Diameter", "ge", v)
      [] name = "diameter_max" -> AttributeFilter("Diameter", "le", v)
      [] name = "hazardous" -> AttributeFilter("Hazardous", "eq", v)

\* the condition under which a parameter contributes its filter: "if x:" for
\* the dates and the numbers (a date is always true, 0 is false), and
\* "if hazardous is not None"
Supplied(name, o) ==
    CASE name \in {"date", "start_date", "end_date"} -> o # None
      [] name = "hazardous" -> o # None
      [] OTHER -> TruthyNum(o)

\* create_filters: the filters of the first k parameters, in the fixed order
RECURSIVE FiltersUpTo(_, _)
FiltersUpTo(p, k) ==
    IF k = 0 THEN <<>>
    ELSE LET name == ParamNames[k]
         IN  IF Supplied(name, p[name])
             THEN Append(FiltersUpTo(p, k - 1), FilterOf(name, p[name][1]))
             ELSE FiltersUpTo(p, k - 1)

create_filters(p) == FiltersUpTo(p, Len(ParamNames))

----------------------------------------------------------------------------
\* Actions: querying

\* filters = create_filters(**params)
CreateFilters(p) ==
    /\ pc = "ready"
    /\ params' = p
    /\ filters' = create_filters(p)
    /\ pc' = "filtered"
    /\ UNCHANGED <<dbvars, lim, rng, ai, pulled, out, evals>>

\* filters built by the caller from the predicate classes
GivenFilters(fs) ==
    /\ pc = "ready"
    /\ filters' = fs
    /\ pc' = "filtered"
    /\ UNCHANGED <<dbvars, params, lim, rng, ai, pulled, out, evals>>

\* results = limit(db.query(filters), n): both generators are created and
\* neither has run
StartQuery(n) ==
    /\ pc = "filtered"
    /\ lim' = n
    /\ pc' = "iterating"
    /\ UNCHANGED <<dbvars, params, filters, rng, ai, pulled, out, evals>>

\* The consumer asks results for its next item and gets an approach, the end
\* of the sequence, or the exception a filter raised.
ConsumerNext ==
    /\ pc = "iterating"
    /\ LET u == LimitNext(lim, rng, filters, neos, approaches, ai)
       IN  /\ rng' = u.rng
           /\ ai' = u.at
           /\ pulled' = pulled + u.pulled
           /\ evals' = evals \o u.log
           /\ out' = IF u.kind = "yield" THEN Append(out, u.at) ELSE out
           /\ pc' = CASE u.kind = "yield" -> "iterating"
                      [] u.kind = "stop" -> "done"
                      [] u.kind = "raise" -> "error"
    /\ UNCHANGED <<dbvars, params, filters, lim>>

----------------------------------------------------------------------------
\* The query specification: a fixed catalogue of NEOs, approaches loaded from
\* a few records, any short collection of filters, any small limit

MaxQueried == 2
MaxFilters == 2
MaxLimit == 2

Catalogue ==
    <<NearEarthObject("433", Some("Eros"), Some(2), FALSE),
      NearEarthObject("1036", None, Some(0), TRUE),
      NearEarthObject("2020 AB", None, Some(1), TRUE)>>

\* (designation, time, distance, velocity), as load_approaches reads them;
\* "9999" is the designation of no NEO of the catalogue
ApproachRecords ==
    {<<"433", Some(<<1, 0>>), 1, 2>>,
     <<"1036", Some(<<1, 12>>), 2, 2>>,
     <<"2020 AB", Some(<<2, 0>>), 1, 1>>,
     <<"9999", Some(<<1, 0>>), 1, 1>>,
     <<"9999", Some(<<2, 12>>), 2, 2>>}

FilterChoices ==
    {AttributeFilter("Date", "eq", 1),
     AttributeFilter("Distance", "le", 1),
     AttributeFilter("Velocity", "ge", 2),
     AttributeFilter("Diameter", "ge", 1),
     AttributeFilter("Hazardous", "eq", TRUE)}

\* the tuples of at most m elements of S
TuplesUpTo(S, m) == UNION {[1..k -> S] : k \in 0..m}

Limits == {None} \cup {Some(n) : n \in 0..MaxLimit}

InitQuery ==
    /\ neos = Catalogue
    /\ approaches = <<>>
    /\ designation_index = <<>>
    /\ name_index = <<>>
    /\ found = NoCall
    /\ NoQuery
    /\ pc = "load"

NextQuery ==
    \/ /\ Len(approaches) < MaxQueried
       /\ \E r \in ApproachRecords : LoadApproach(r[1], r[2], r[3], r[4])
    \/ NewDatabase
    \/ \E fs \in TuplesUpTo(FilterChoices, MaxFilters) : GivenFilters(fs)
    \/ \E n \in Limits : StartQuery(n)
    \/ ConsumerNext

SpecQuery == InitQuery /\ [][NextQuery]_vars

----------------------------------------------------------------------------
\* The filter-factory specification: the same database, the filters made by
\* create_filters from at most two supplied parameters, no limit

ParamValues(name) ==
    CASE name \in {"date", "start_date", "end_date"} -> {None, Some(1), Some(2)}
      [] name = "hazardous" -> {None, Some(TRUE), Some(FALSE)}
      [] OTHER -> {None, Some(0), Some(1), Some(2)}

ParamNameSet == {ParamNames[k] : k \in DOMAIN ParamNames}

\* the call create_filters(n1=v1, n2=v2)
Params(n1, v1, n2, v2) ==
    [name \in ParamNameSet |->
        IF name = n1 THEN v1 ELSE IF name = n2 THEN v2 ELSE None]

NextFilters ==
    \/ /\ Len(approaches) < MaxQueried
       /\ \E r \in ApproachRecords : LoadApproach(r[1], r[2], r[3], r[4])
    \/ NewDatabase
    \/ \E n1, n2 \in ParamNameSet :
          \E v1 \in ParamValues(n1), v2 \in ParamValues(n2) :
              CreateFilters(Params(n1, v1, n2, v2))
    \/ StartQuery(None)
    \/ ConsumerNext

SpecFilters == InitQuery /\ [][NextFilters]_vars

----------------------------------------------------------------------------
\* Linking and look-up: what is claimed of a constructed database

NeoIds == 1..Len(neos)
ApproachIds == 1..Len(approaches)

\* how often x occurs in the list s
Occurrences(s, x) == Cardinality({p \in DOMAIN s : s[p] = x})

\* NEO j is the last one supplied with its designation
LastOfDesignation(j) ==
    \A j2 \in NeoIds : neos[j2].designation = neos[j].designation => j2 <= j

\* the approaches with designation d, in the order supplied
RECURSIVE ApproachesOf(_, _)
ApproachesOf(d, i) ==
    IF i = 0 THEN <<>>
    ELSE IF approaches[i].designation = d
         THEN Append(ApproachesOf(d, i - 1), i)
         ELSE ApproachesOf(d, i - 1)

BackReferenceAgrees ==
    \A i \in ApproachIds :
        approaches[i].neo # None =>
            /\ approaches[i].neo[1] \in NeoIds
            /\ neos[approaches[i].neo[1]].designation = approaches[i].designation

\* C1 as stated: after construction every approach is linked to EVERY NEO
\* that carries its designation, and occurs exactly once in that NEO's
\* approaches; and a set neo has the approach's designation.
C1_LinkedToEveryMatchingNeo ==
    pc = "ready" =>
        /\ \A j \in NeoIds, i \in ApproachIds :
               approaches[i].designation = neos[j].designation =>
                   /\ approaches[i].neo = Some(j)
                   /\ Occurrences(neos[j].approaches, i) = 1
        /\ BackReferenceAgrees

\* C1 amended: after construction every approach whose designation some NEO
\* carries is linked to the LAST NEO supplied with that designation and occurs
\* exactly once in that NEO's approaches; and a set neo has the approach's
\* designation.
C1_LinkedToLastMatchingNeo ==
    pc = "ready" =>
        /\ \A j \in NeoIds, i \in ApproachIds :
               (approaches[i].designation = neos[j].designation
                    /\ LastOfDesignation(j)) =>
                   /\ approaches[i].neo = Some(j)
                   /\ Occurrences(neos[j].approaches, i) = 1
        /\ BackReferenceAgrees

C1_Witness ==
    /\ pc = "ready"
    /\ \E j1, j2 \in NeoIds, i \in ApproachIds :
          /\ j1 < j2
          /\ neos[j1].designation = neos[j2].designation
          /\ approaches[i].designation = neos[j2].designation
          /\ approaches[i].neo = Some(j2)

\* the last NEO whose field equals the key, or None
LastNeoWith(Field(_), key) ==
    LET hits == {j \in NeoIds : Field(neos[j]) = key}
    IN  IF hits = {} THEN None
        ELSE Some(CHOOSE j \in hits : \A j2 \in hits : j2 <= j)

DesignationOf(neo) == Some(neo.designation)
NameOf(neo) == neo.name

\* C2: get_neo_by_designation(k) returns the last NEO supplied with
\* designation k, or None when there is none; get_neo_by_name(k) does the
\* same over names, and None or '' as the name never matches a NEO.
C2_LookupReturnsTheNeo ==
    /\ found.by = "designation" =>
           found.neo = LastNeoWith(DesignationOf, found.key)
    /\ found.by = "name" =>
           found.neo = IF TruthyStr(found.key)
                       THEN LastNeoWith(NameOf, found.key)
                       ELSE None

C2_Witness ==
    /\ found.by = "name"
    /\ found.key = None
    /\ found.neo = None
    /\ \E j \in NeoIds : neos[j].name = None

\* C8 as stated: after construction the approaches of EVERY NEO are the
\* supplied approaches with its designation, in the order supplied; an
\* approach whose designation no NEO carries has no neo and is in no list.
OrphansStayUnlinked ==
    \A i \in ApproachIds :
        (\A j \in NeoIds : neos[j].designation # approaches[i].designation) =>
            /\ approaches[i].neo = None
            /\ \A j \in NeoIds : Occurrences(neos[j].approaches, i) = 0

C8_EveryNeoListsItsApproaches ==
    pc = "ready" =>
        /\ \A j \in NeoIds :
               neos[j].approaches = ApproachesOf(neos[j].designation, Len(approaches))
        /\ OrphansStayUnlinked

\* C8 amended: after construction the approaches of every NEO that is the last
\* one supplied with its designation are the supplied approaches with that
\* designation, in the order supplied, and a NEO followed by another of the
\* same designation has an empty list; an approach whose designation no NEO
\* carries has no neo and is in no list.
C8_LastNeoListsItsApproaches ==
    pc = "ready" =>
        /\ \A j \in NeoIds :
               neos[j].approaches =
                   IF LastOfDesignation(j)
                   THEN ApproachesOf(neos[j].designation, Len(approaches))
                   ELSE <<>>
        /\ OrphansStayUnlinked

C8_Witness ==
    /\ pc = "ready"
    /\ \E j \in NeoIds : Len(neos[j].approaches) = 2
    /\ \E i \in ApproachIds : approaches[i].neo = None

----------------------------------------------------------------------------
\* Querying: what is claimed of query, the filters, create_filters and limit

\* all the filters of fs evaluate true on approach i
Passes(fs, i) ==
    \A k \in DOMAIN fs : Call(fs[k], neos, approaches[i]) = "True"

\* the approaches among the first i that pass, in the order supplied
RECURSIVE PassingUpTo(_, _)
PassingUpTo(fs, i) ==
    IF i = 0 THEN <<>>
    ELSE IF Passes(fs, i) THEN Append(PassingUpTo(fs, i - 1), i)
         ELSE PassingUpTo(fs, i - 1)

\* query(fs) consumed to its end from the approach after i: what it yields
\* and how it ends
RECURSIVE DrainFrom(_, _, _)
DrainFrom(fs, i, acc) ==
    LET u == Resume(fs, neos, approaches, i)
    IN  CASE u.kind = "yield" -> DrainFrom(fs, u.at, Append(acc, u.at))
          [] u.kind = "stop" -> [out |-> acc, end |-> "done"]
          [] u.kind = "raise" -> [out |-> acc, end |-> "error"]

Drain(fs) == DrainFrom(fs, 0, <<>>)

\* (a for a in query(<<f1>>) if f2(a)) consumed to its end
RECURSIVE RefilterFrom(_, _, _, _)
RefilterFrom(f1, f2, i, acc) ==
    LET u == Resume(<<f1>>, neos, approaches, i)
    IN  CASE u.kind = "yield" ->
                 LET r == Call(f2, neos, approaches[u.at])
                 IN  CASE r = "True" -> RefilterFrom(f1, f2, u.at, Append(acc, u.at))
                       [] r = "False" -> RefilterFrom(f1, f2, u.at, acc)
                       [] OTHER -> [out |-> acc, end |-> "error"]
          [] u.kind = "stop" -> [out |-> acc, end |-> "done"]
          [] u.kind = "raise" -> [out |-> acc, end |-> "error"]

Refiltered(f1, f2) == RefilterFrom(f1, f2, 0, <<>>)

Ended == pc \in {"done", "error"}
Unlimited == lim = None \/ lim = Some(0)
Outcome == [out |-> out, end |-> pc]
Min(a, b) == IF a <= b THEN a ELSE b
LastEvaluation == evals[Len(evals)]

\* C3 as stated: a query consumed to its end has yielded exactly the
\* approaches on which all the filters evaluate true, once each, in the order
\* supplied.
C3_QueryYieldsThePassing ==
    (Ended /\ Unlimited) => out = PassingUpTo(filters, Len(approaches))

\* C3 amended: a query that ends without an error has yielded exactly the
\* approaches on which all the filters evaluate true, once each, in the order
\* supplied; a query that ends in the error a filter raised on an approach
\* has yielded exactly those among the approaches before that one.
C3_QueryYieldsThePassingUntilAnError ==
    Unlimited =>
        /\ pc = "done" => out = PassingUpTo(filters, Len(approaches))
        /\ pc = "error" =>
               /\ out = PassingUpTo(filters, ai - 1)
               /\ LastEvaluation.approach = ai
               /\ LastEvaluation.result = "AttributeError"

C3_Witness ==
    /\ pc = "done"
    /\ Unlimited
    /\ Len(filters) = 2
    /\ Len(approaches) = 2
    /\ Len(out) = 1

\* C5 as stated: with two filters, the query has the outcome of query(<<f1>>)
\* filtered again by f2, and the outcome of the query with the two filters
\* in the other order.
C5_FilterOrderIsIrrelevant ==
    (Ended /\ Unlimited /\ Len(filters) = 2) =>
        /\ Outcome = Refiltered(filters[1], filters[2])
        /\ Outcome = Drain(<<filters[2], filters[1]>>)

\* C5 amended: with two filters, the query has the outcome of query(<<f1>>)
\* filtered again, item by item, by f2; and it yields the same approaches as
\* the query with the two filters in the other order whenever neither of the
\* two ends in an error.
C5_FilterOrderIsIrrelevantWithoutErrors ==
    (Ended /\ Unlimited /\ Len(filters) = 2) =>
        /\ Outcome = Refiltered(filters[1], filters[2])
        /\ LET other == Drain(<<filters[2], filters[1]>>)
           IN  (pc = "done" /\ other.end = "done") => out = other.out

C5_Witness ==
    /\ pc = "done"
    /\ Unlimited
    /\ Len(filters) = 2
    /\ filters[1].kind # filters[2].kind
    /\ Drain(<<filters[2], filters[1]>>).end = "done"
    /\ \E i \in ApproachIds : approaches[i].neo = None
    /\ Len(out) = 1
    /\ Len(approaches) = 2

\* the first n elements of s
Take(s, n) == [p \in 1..Min(n, Len(s)) |-> s[p]]

\* C6: limit(s, n) with n positive yields the first min(n, length of s)
\* elements of s in order, and limit(s, None) and limit(s, 0) yield all of s
\* (s being what the query yields when consumed alone, without an error).
C6_LimitYieldsThePrefix ==
    (pc = "done" /\ Drain(filters).end = "done") =>
        out = IF lim # None /\ lim[1] > 0
              THEN Take(Drain(filters).out, lim[1])
              ELSE Drain(filters).out

C6_Witness ==
    /\ pc = "done"
    /\ lim = Some(1)
    /\ Len(Drain(filters).out) = 2
    /\ out = <<Drain(filters).out[1]>>

\* C7: a DiameterFilter or HazardousFilter called on an approach whose neo is
\* unset ends in an error, never in False (or True), and the query that made
\* the call ends in that error without yielding the approach.
C7_UnsetNeoRaises ==
    \A p \in DOMAIN evals :
        (/\ filters[evals[p].filter].kind \in {"Diameter", "Hazardous"}
         /\ approaches[evals[p].approach].neo = None) =>
            /\ evals[p].result = "AttributeError"
            /\ p = Len(evals)
            /\ pc = "error"
            /\ Occurrences(out, evals[p].approach) = 0

C7_Witness ==
    /\ pc = "error"
    /\ filters[LastEvaluation.filter].kind \in {"Diameter", "Hazardous"}
    /\ approaches[LastEvaluation.approach].neo = None
    /\ LastEvaluation.result = "AttributeError"

\* C9: nothing is examined before the consumer asks; with a positive limit n
\* the limiter takes at most n items from the query, exactly min(n, number of
\* items the query has) when consumed to its end, and once n items are out
\* no filter has been called on an approach after the n-th result.
C9_LimitIsLazy ==
    /\ pc \in {"load", "ready", "filtered"} => (evals = <<>> /\ ai = 0)
    /\ (pc = "iterating" /\ out = <<>> /\ rng = 0) => (evals = <<>> /\ ai = 0)
    /\ (lim # None /\ lim[1] > 0) =>
           /\ pulled <= lim[1]
           /\ pulled = Len(out)
           /\ pc = "done" => pulled = Min(lim[1], Len(Drain(filters).out))
           /\ Len(out) = lim[1] =>
                  /\ ai = out[lim[1]]
                  /\ \A p \in DOMAIN evals : evals[p].approach <= out[lim[1]]

C9_Witness ==
    /\ pc = "done"
    /\ lim = Some(1)
    /\ filters # <<>>
    /\ Len(approaches) = 2
    /\ Len(Drain(filters).out) = 2
    /\ out = <<1>>
    /\ ai = 1

\* C10: on each approach the filters are called in the order of the
\* collection, starting with the first, and a filter is called only after
\* the one before it returned True: nothing is called after a False, so a
\* NEO-dependent filter after a filter that rejects an orphaned approach is
\* not called on it.
C10_FiltersShortCircuit ==
    /\ \A p \in DOMAIN evals :
          \/ /\ evals[p].filter = 1
             /\ p > 1 => evals[p - 1].approach < evals[p].approach
          \/ /\ p > 1
             /\ evals[p - 1].approach = evals[p].approach
             /\ evals[p - 1].filter = evals[p].filter - 1
             /\ evals[p - 1].result = "True"
    /\ filters # <<>> =>
          \A i \in 1..ai : \E p \in DOMAIN evals :
              evals[p].approach = i /\ evals[p].filter = 1

C10_Witness ==
    /\ pc = "done"
    /\ Len(filters) = 2
    /\ filters[2].kind \in {"Diameter", "Hazardous"}
    /\ \E p \in DOMAIN evals :
          /\ approaches[evals[p].approach].neo = None
          /\ evals[p].filter = 1
          /\ evals[p].result = "False"
          /\ \A q \in DOMAIN evals :
                evals[q].approach = evals[p].approach => evals[q].filter = 1

\* the filters create_filters is to return: one for each parameter that is
\* not None, in the fixed order
RECURSIVE ExpectedFiltersUpTo(_, _)
ExpectedFiltersUpTo(p, k) ==
    IF k = 0 THEN <<>>
    ELSE LET name == ParamNames[k]
         IN  IF p[name] # None
             THEN Append(ExpectedFiltersUpTo(p, k - 1), FilterOf(name, p[name][1]))
             ELSE ExpectedFiltersUpTo(p, k - 1)

\* C4: create_filters returns one predicate for each parameter that is not
\* None, a threshold of 0 included, and none for the others, and the query
\* applies them all.
C4_OnePredicatePerSuppliedParameter ==
    pc \in {"filtered", "iterating", "done", "error"} =>
        /\ filters = ExpectedFiltersUpTo(params, Len(ParamNames))
        /\ pc = "done" =>
               out = PassingUpTo(ExpectedFiltersUpTo(params, Len(ParamNames)),
                                 Len(approaches))

====
